---- MODULE Spec2Model ----
(***************************************************************************)
(* Restock notification bot: the browser dashboard.                        *)
(*                                                                         *)
(* The model follows the standalone dashboard script (the `products`       *)
(* array, testProduct, deleteProduct, startMonitoring, stopMonitoring,     *)
(* addLogEntry).  A product is a JavaScript object: the `products` array   *)
(* holds references to objects, and the closure a pending test keeps       *)
(* refers to the object, not to its position in the array.  `heap` is the  *)
(* store of objects, a reference is an index into it.                      *)
(*                                                                         *)
(* showNotification only adds a toast that removes itself after four       *)
(* seconds.  The one toast that tells the user of a restock, "<name> is IN *)
(* STOCK!", is the restock notification: `fired` counts it per product     *)
(* object.  The other toasts (Testing..., is out of stock, Monitoring      *)
(* started, Product deleted, ...) are status messages and are not state.   *)
(* The fields url, selector, expectedText and email are written once by    *)
(* addProduct and read only for display; they are left out.                *)
(*                                                                         *)
(* Time is the wall clock in milliseconds since 2024-01-15 00:00:00 UTC.   *)
(* Timers fire in the order the browser guarantees (equal delays fire in   *)
(* registration order); how late a timer fires is left open.               *)
(***************************************************************************)
EXTENDS Integers, Sequences, FiniteSets, TLC

VARIABLES
    products,            \* the `products` array: a sequence of object references
    heap,                \* the product objects: reference -> fields
    monitoringActive,    \* `monitoringActive`
    monitoringInterval,  \* `monitoringInterval`: Undefined or a timer handle
    intervals,           \* the live setInterval timers of the page (handles)
    timers,              \* the pending setTimeout callbacks, in firing order
    now,                 \* the wall clock, ms
    logsList,            \* children of #logsList, first child first
    stats,               \* the three counters updateStats displays
    productsList,        \* what loadProducts rendered into #productsList
    fired,               \* restock notifications shown so far, per object
    events,              \* handlers run and clock advances so far
    api,                 \* the backend behind /api: products, log, counters
    fetches,             \* the fetch() calls of the API client, unsettled
    dashboard            \* the page of the API client: what it rendered

vars == <<products, heap, monitoringActive, monitoringInterval, intervals,
          timers, now, logsList, stats, productsList, fired, events,
          api, fetches, dashboard>>

----------------------------------------------------------------------------
(* Bound of the exploration *)

MaxEvents   == 6         \* handlers run and clock advances in one run
LogRounds   == 8         \* start/stop rounds behind a long-running page

(* Program constants *)

LogCapacity == 20        \* "Keep only last 20 entries"
MsPerSec    == 1000      \* lastChecked is the ISO string cut to seconds
Null        == -1        \* lastChecked: null
Undefined   == 0         \* monitoringInterval before the first setInterval
ClockStep   == 500       \* granularity of the modelled clock, ms
PageLoad    == 60000000  \* the clock when the page loads (16:40:00)

FormNames   == {"Widget"}

----------------------------------------------------------------------------
(* Helpers *)

\* new Date().toISOString().slice(0, 19).replace('T', ' ')
FormatTime(ms) == ms \div MsPerSec

\* products.find(p => p.id === productId): the first match, or 0
RECURSIVE FindFrom(_, _, _, _)
FindFrom(ps, h, productId, i) ==
    IF i > Len(ps) THEN 0
    ELSE IF h[ps[i]].id = productId THEN ps[i]
    ELSE FindFrom(ps, h, productId, i + 1)

Find(ps, h, productId) == FindFrom(ps, h, productId, 1)

\* the filter left out: every product is a candidate
ActiveProductsUnfiltered(ps, h) == ps

\* products.filter(p => p.isActive)
ActiveProducts(ps, h) == SelectSeq(ps, LAMBDA r : h[r].isActive)

\* products.filter(p => !p.isActive)
InactiveProducts(ps, h) == SelectSeq(ps, LAMBDA r : ~h[r].isActive)

\* the comparison inverted: keeps the product and drops the others
WithoutIdInverted(ps, h, productId) ==
    SelectSeq(ps, LAMBDA r : h[r].id = productId)

\* products.filter(p => p.id !== productId)
WithoutId(ps, h, productId) == SelectSeq(ps, LAMBDA r : h[r].id # productId)

\* the check also suspends the product
SetLastCheckedSuspending(h, r, ms) ==
    [h EXCEPT ![r].lastChecked = FormatTime(ms), ![r].isActive = FALSE]

\* the check forgets to store the time
SetLastCheckedSkipped(h, r, ms) == h

\* the check writes a fresh record and so resets the state to Active
SetLastCheckedActivating(h, r, ms) ==
    [h EXCEPT ![r].lastChecked = FormatTime(ms), ![r].isActive = TRUE]

\* the check stores the wrong field: the creation time
SetLastCheckedStale(h, r, ms) ==
    [h EXCEPT ![r].lastChecked = h[r].createdAt]

\* product.lastChecked = <now>
SetLastChecked(h, r, ms) ==
    [h EXCEPT ![r].lastChecked = FormatTime(ms)]

\* the first child is dropped instead of the last
RECURSIVE TrimNewest(_)
TrimNewest(l) == IF Len(l) > LogCapacity THEN TrimNewest(Tail(l)) ELSE l

\* addLogEntry: insert before the first child, then drop last children
\* while there are more than 20
RECURSIVE Trim(_)
Trim(l) == IF Len(l) > LogCapacity THEN Trim(SubSeq(l, 1, Len(l) - 1)) ELSE l

\* the entry is inserted twice
AddLogEntryTwice(l, ms, message) ==
    Trim(<<[time |-> FormatTime(ms), message |-> message],
           [time |-> FormatTime(ms), message |-> message]>> \o l)

\* the entry is not inserted
AddLogEntryDropped(l, ms, message) == l

AddLogEntry(l, ms, message) ==
    Trim(<<[time |-> FormatTime(ms), message |-> message]>> \o l)

\* the Active counter shows every product
UpdateStatsCountingAll(ps, h) ==
    [totalProducts     |-> Len(ps),
     activeProducts    |-> Len(ps),
     notificationsSent |-> Len(InactiveProducts(ps, h))]

\* updateStats
UpdateStats(ps, h) ==
    [totalProducts     |-> Len(ps),
     activeProducts    |-> Len(ActiveProducts(ps, h)),
     notificationsSent |-> Len(InactiveProducts(ps, h))]

\* loadProducts: one rendered item per array element
LoadProducts(ps, h) ==
    [i \in 1..Len(ps) |->
        [id |-> h[ps[i]].id, name |-> h[ps[i]].name,
         isActive |-> h[ps[i]].isActive, lastChecked |-> h[ps[i]].lastChecked]]

\* the ids the rendered Test / View / Delete buttons carry
ButtonIds == {productsList[i].id : i \in 1..Len(productsList)}

\* one more handler runs
Event ==
    /\ events < MaxEvents
    /\ events' = events + 1
    /\ UNCHANGED <<api, fetches, dashboard>>

\* the guard left out
AlreadyRunningUnguarded(active) == FALSE

\* `if (monitoringActive) return;`
AlreadyRunning(active) == active

\* `if (!monitoringActive) return;`
AlreadyStopped(active) == ~active

\* the handle a new setInterval returns: one the page has not used yet
NewHandle(last) == last + 1

\* the timer is left running
ClearIntervalKeeping(live, handle) == live

\* clearInterval(handle)
ClearInterval(live, handle) == live \ {handle}

----------------------------------------------------------------------------
(* The API client (class RestockDashboard).  The page keeps no product
   state of its own: it fetches /api/status, /api/products and /api/logs
   and renders the answers.  A log line is a string; the model keeps of it
   its number in the backend's log, the level words it contains and the
   characters of its message.  Two fields of `dashboard` are history, not
   page: `latest` is the outcome of the most recently issued /api/products
   request among those that have settled (`older` counts the unsettled
   requests issued before it), `shownOk` tells whether #productsList
   shows an answer or the error paragraph.  The backend is
   not part of these sources:
   `api` follows the engine of the specification (the product store, the
   check transitions, the activity log). *)

LogsShown   == 20        \* `logs.slice(-20)`
ServerLines == 20        \* lines in the backend's log when the page loads

Outcomes == {"InStock", "OutOfStock", "FetchFailed", "ExtractFailed"}

\* `div.textContent = text; return div.innerHTML`: the three characters
\* the serializer escapes in text; quotes stay
EscapeHtml(text) ==
    [i \in 1..Len(text) |->
        CASE text[i] = "&" -> "&amp;"
          [] text[i] = "<" -> "&lt;"
          [] text[i] = ">" -> "&gt;"
          [] OTHER        -> text[i]]

\* log.includes('ERROR'), then 'WARNING', then 'INFO'
GetLogClass(log) ==
    IF "ERROR" \in log.words THEN "log-error"
    ELSE IF "WARNING" \in log.words THEN "log-warning"
    ELSE IF "INFO" \in log.words THEN "log-info"
    ELSE ""

\* logs.slice(-n)
SliceLast(logs, n) ==
    SubSeq(logs, IF Len(logs) > n THEN Len(logs) - n + 1 ELSE 1, Len(logs))

\* logs.slice(0, n)
SliceFirst(logs, n) ==
    SubSeq(logs, 1, IF Len(logs) > n THEN n ELSE Len(logs))

\* array.reverse()
Reverse(a) == [i \in 1..Len(a) |-> a[Len(a) - i + 1]]

\* the oldest lines are shown instead of the newest
RenderLogsOldest(logs) ==
    IF Len(logs) = 0
    THEN <<[class |-> "", n |-> Null, words |-> {},
            html |-> <<"No logs available">>]>>
    ELSE LET shown == Reverse(SliceFirst(logs, LogsShown))
         IN  [i \in 1..Len(shown) |->
                [class |-> GetLogClass(shown[i]), n |-> shown[i].n,
                 words |-> shown[i].words,
                 html |-> EscapeHtml(shown[i].text)]]

\* renderLogs: the new children of #logsList
RenderLogs(logs) ==
    IF Len(logs) = 0
    THEN <<[class |-> "", n |-> Null, words |-> {},
            html |-> <<"No logs available">>]>>
    ELSE LET shown == Reverse(SliceLast(logs, LogsShown))
         IN  [i \in 1..Len(shown) |->
                [class |-> GetLogClass(shown[i]), n |-> shown[i].n,
                 words |-> shown[i].words,
                 html |-> EscapeHtml(shown[i].text)]]

\* renderProducts: one item per product of the answer, with a Test button
\* for each and a Deactivate button for the active ones
RenderProducts(answer) ==
    [i \in 1..Len(answer) |->
        [id |-> answer[i].id, active |-> answer[i].is_active,
         lastChecked |-> answer[i].last_checked,
         deactivate |-> answer[i].is_active]]

\* the ids the rendered Test buttons carry
TestButtonIds ==
    {dashboard.productsList[i].id : i \in 1..Len(dashboard.productsList)}

\* showNotification(message, type)
ShowNotification(d, message, type) ==
    [d EXCEPT !.toast = [message |-> message, type |-> type]]

\* fetch(url): a request that no one has answered yet
Request(url, id) ==
    [url |-> url, id |-> id, answered |-> FALSE, ok |-> FALSE,
     body |-> << >>, data |-> << >>, waiter |-> ""]

\* loadData: loadStatus, loadProducts and loadLogs each send their request
LoadData(fs) ==
    fs \o <<Request("/api/status", 0), Request("/api/products", 0),
            Request("/api/logs", 0)>>

\* a sequence without its i-th element
Settled(fs, i) == SubSeq(fs, 1, i - 1) \o SubSeq(fs, i + 1, Len(fs))

\* the k-th line of the backend's log when the page loads
ServerLine(k) ==
    [n |-> k,
     words |-> IF k % 3 = 0 THEN {"INFO", "ERROR"}
               ELSE IF k % 3 = 1 THEN {"INFO"} ELSE {"WARNING"},
     text |-> IF k % 2 = 0 THEN <<"<", "b", ">", "&", "\"">> ELSE <<"ok">>]

\* the store and the log of the backend when the page loads
Backend(lines) ==
    [products |->
        << [id |-> 1, name |-> "MacBook Pro M1", is_active |-> TRUE,
            last_checked |-> Null, last_error |-> ""],
           [id |-> 2, name |-> "Google Test", is_active |-> FALSE,
            last_checked |-> Null, last_error |-> ""] >>,
     logs |-> [k \in 1..lines |-> ServerLine(k)],
     notifications_sent |-> 0]

\* a failed check suspends the product and notifies
ApplyCheckResultFailing(p, outcome, t) ==
    IF ~p.is_active THEN p
    ELSE IF outcome = "OutOfStock" THEN [p EXCEPT !.last_checked = t]
    ELSE [p EXCEPT !.is_active = FALSE, !.last_checked = t]

\* the transition of one product on a check result: a Suspended product
\* is excluded from checks; InStock suspends; OutOfStock updates
\* last_checked_at only; a failure updates last_checked_at and last_error
ApplyCheckResult(p, outcome, t) ==
    IF ~p.is_active THEN p
    ELSE IF outcome = "InStock"
         THEN [p EXCEPT !.is_active = FALSE, !.last_checked = t]
    ELSE IF outcome = "OutOfStock" THEN [p EXCEPT !.last_checked = t]
    ELSE [p EXCEPT !.last_checked = t, !.last_error = outcome]

\* the line a check result leaves in the activity log
ResultLine(k, outcome) ==
    [n |-> k,
     words |-> IF outcome \in {"InStock", "OutOfStock"} THEN {"INFO"}
               ELSE {"WARNING"},
     text |-> <<outcome>>]

\* check_now(product_id): the transition, one notification on the
\* suspension, one log line whatever the outcome
CheckNow(a, productId, outcome, t) ==
    LET after == [i \in 1..Len(a.products) |->
                    IF a.products[i].id = productId
                    THEN ApplyCheckResult(a.products[i], outcome, t)
                    ELSE a.products[i]]
        suspended == {i \in 1..Len(after) :
                        a.products[i].is_active /\ ~after[i].is_active}
    IN  [products |-> after,
         logs |-> Append(a.logs, ResultLine(Len(a.logs) + 1, outcome)),
         notifications_sent |-> a.notifications_sent + Cardinality(suspended)]

\* status()
Status(a) ==
    [total_products |-> Len(a.products),
     active_products |-> Len(SelectSeq(a.products, LAMBDA p : p.is_active)),
     notifications_sent |-> a.notifications_sent,
     monitoring_status |-> "Stopped"]

\* the page as the template ships it
Template ==
    [status |-> [totalProducts |-> 0, activeProducts |-> 0,
                 notificationsSent |-> 0, monitoringStatus |-> "Stopped"],
     productsList |-> << >>,
     logsList |->
        << [class |-> "", n |-> Null, words |-> {},
            html |-> <<"Bot initialized successfully">>],
           [class |-> "", n |-> Null, words |-> {},
            html |-> <<"Database connection established">>],
           [class |-> "", n |-> Null, words |-> {},
            html |-> <<"Ready to monitor products">>] >>,
     toast |-> [message |-> <<"">>, type |-> ""],
     submit |-> [text |-> "Add Product", disabled |-> FALSE],
     shownOk |-> FALSE,
     latest |-> [older |-> 0, ok |-> FALSE, list |-> << >>]]

\* the page of the API client is not open
Unopened ==
    /\ api = Backend(0)
    /\ fetches = << >>
    /\ dashboard = Template

\* one more step of the API client or of the backend
Step ==
    /\ events < MaxEvents
    /\ events' = events + 1
    /\ UNCHANGED <<products, heap, monitoringActive, monitoringInterval,
                   intervals, timers, now, logsList, stats, productsList,
                   fired>>

----------------------------------------------------------------------------
(* Initial state: the script has run and DOMContentLoaded has fired *)

SampleProducts ==
    << [id |-> 1, name |-> "MacBook Pro M1", isActive |-> TRUE,
        lastChecked |-> 51900, createdAt |-> 36000],
       [id |-> 2, name |-> "Google Test", isActive |-> FALSE,
        lastChecked |-> 51600, createdAt |-> 43200] >>

Init ==
    /\ heap = SampleProducts
    /\ products = <<1, 2>>
    /\ monitoringActive = FALSE
    /\ monitoringInterval = Undefined
    /\ intervals = {}
    /\ timers = <<[kind |-> "init", ref |-> 0]>>
    /\ now = PageLoad
    /\ logsList = << >>
    /\ stats = UpdateStats(<<1, 2>>, SampleProducts)
    /\ productsList = LoadProducts(<<1, 2>>, SampleProducts)
    /\ fired = <<0, 0>>
    /\ events = 0
    /\ Unopened

----------------------------------------------------------------------------
(* The environment: time passes *)

Advance ==
    /\ Event
    /\ now' = now + ClockStep
    /\ UNCHANGED <<products, heap, monitoringActive, monitoringInterval,
                   intervals, timers, logsList, stats, productsList, fired>>

----------------------------------------------------------------------------
(* addProduct: the form was submitted with a product name *)

\* the new product is stamped as checked at creation
addProductStamped(name) ==
    LET ref        == Len(heap) + 1
        newProduct == [id |-> now, name |-> name, isActive |-> TRUE,
                       lastChecked |-> FormatTime(now),
                       createdAt |-> FormatTime(now)]
        h2         == Append(heap, newProduct)
        ps2        == Append(products, ref)
    IN  /\ heap' = h2
        /\ products' = ps2
        /\ fired' = Append(fired, 0)
        /\ productsList' = LoadProducts(ps2, h2)
        /\ stats' = UpdateStats(ps2, h2)
        /\ Event
        /\ UNCHANGED <<monitoringActive, monitoringInterval, intervals,
                       timers, now, logsList>>

addProduct(name) ==
    LET ref        == Len(heap) + 1
        newProduct == [id |-> now, name |-> name, isActive |-> TRUE,
                       lastChecked |-> Null, createdAt |-> FormatTime(now)]
        h2         == Append(heap, newProduct)
        ps2        == Append(products, ref)
    IN  /\ heap' = h2
        /\ products' = ps2
        /\ fired' = Append(fired, 0)
        /\ productsList' = LoadProducts(ps2, h2)
        /\ stats' = UpdateStats(ps2, h2)
        /\ Event
        /\ UNCHANGED <<monitoringActive, monitoringInterval, intervals,
                       timers, now, logsList>>

(* testProduct: a Test button was clicked; the check completes in a
   setTimeout callback that keeps the product object it found *)

testProduct(productId) ==
    LET product == Find(products, heap, productId)
    IN  IF product = 0
        THEN /\ Event
             /\ UNCHANGED <<products, heap, monitoringActive,
                            monitoringInterval, intervals, timers, now,
                            logsList, stats, productsList, fired>>
        ELSE /\ timers' = Append(timers, [kind |-> "test", ref |-> product])
             /\ Event
             /\ UNCHANGED <<products, heap, monitoringActive,
                            monitoringInterval, intervals, now, logsList,
                            stats, productsList, fired>>

\* the callback puts a product it no longer finds back into the array
testProductTimeoutReinserting(isInStock) ==
    /\ timers # << >>
    /\ Head(timers).kind = "test"
    /\ LET product == Head(timers).ref
           h2      == SetLastChecked(heap, product, now)
           ps2     == IF \E i \in 1..Len(products) : products[i] = product
                      THEN products ELSE Append(products, product)
       IN  /\ fired' = [fired EXCEPT ![product] = @ + (IF isInStock THEN 1 ELSE 0)]
           /\ logsList' = AddLogEntry(logsList, now,
                  <<"Tested", heap[product].name,
                    IF isInStock THEN "IN STOCK" ELSE "OUT OF STOCK">>)
           /\ heap' = h2
           /\ products' = ps2
           /\ productsList' = LoadProducts(ps2, h2)
           /\ Event
    /\ timers' = Tail(timers)
    /\ UNCHANGED <<monitoringActive, monitoringInterval, intervals, now, stats>>

(* the callback of testProduct's setTimeout; isInStock is Math.random() > 0.5 *)

testProductTimeout(isInStock) ==
    /\ timers # << >>
    /\ Head(timers).kind = "test"
    /\ LET product == Head(timers).ref
           h2      == SetLastChecked(heap, product, now)
       IN  /\ fired' = [fired EXCEPT ![product] = @ + (IF isInStock THEN 1 ELSE 0)]
           /\ logsList' = AddLogEntry(logsList, now,
                  <<"Tested", heap[product].name,
                    IF isInStock THEN "IN STOCK" ELSE "OUT OF STOCK">>)
           /\ heap' = h2
           /\ productsList' = LoadProducts(products, h2)
           /\ Event
    /\ timers' = Tail(timers)
    /\ UNCHANGED <<products, monitoringActive, monitoringInterval,
                   intervals, now, stats>>

(* viewProduct: fills and shows the modal; no product data changes *)

viewProduct(productId) ==
    /\ Event
    /\ UNCHANGED <<products, heap, monitoringActive, monitoringInterval,
                   intervals, timers, now, logsList, stats, productsList,
                   fired>>

(* deleteProduct: a Delete button was clicked; confirmed is the answer to
   the confirm() dialog *)

deleteProduct(productId, confirmed) ==
    IF confirmed
    THEN LET ps2 == WithoutId(products, heap, productId)
         IN  /\ products' = ps2
             /\ productsList' = LoadProducts(ps2, heap)
             /\ stats' = UpdateStats(ps2, heap)
             /\ Event
             /\ UNCHANGED <<heap, monitoringActive, monitoringInterval,
                            intervals, timers, now, logsList, fired>>
    ELSE /\ Event
         /\ UNCHANGED <<products, heap, monitoringActive, monitoringInterval,
                        intervals, timers, now, logsList, stats,
                        productsList, fired>>

(* startMonitoring *)

startMonitoring ==
    IF AlreadyRunning(monitoringActive)
    THEN /\ Event
         /\ UNCHANGED <<products, heap, monitoringActive, monitoringInterval,
                        intervals, timers, now, logsList, stats,
                        productsList, fired>>
    ELSE /\ monitoringActive' = TRUE
         /\ logsList' = AddLogEntry(logsList, now,
                                    <<"Bot monitoring started", "", "">>)
         /\ monitoringInterval' = NewHandle(monitoringInterval)
         /\ intervals' = intervals \cup {NewHandle(monitoringInterval)}
         /\ Event
         /\ UNCHANGED <<products, heap, timers, now, stats, productsList,
                        fired>>

(* the callback of startMonitoring's setInterval, for a live timer; the
   product is activeProducts[Math.floor(Math.random() * length)] *)

MonitoringTick(handle) ==
    /\ handle \in intervals
    /\ LET activeProducts == ActiveProducts(products, heap)
       IN  IF Len(activeProducts) > 0
           THEN \E i \in 1..Len(activeProducts) :
                      LET product == activeProducts[i]
                          h2      == SetLastChecked(heap, product, now)
                      IN  /\ logsList' = AddLogEntry(logsList, now,
                                 <<"Checked", heap[product].name,
                                   "OUT OF STOCK">>)
                          /\ heap' = h2
                          /\ productsList' = LoadProducts(products, h2)
                          /\ Event
           ELSE /\ Event
                /\ UNCHANGED <<heap, logsList, productsList>>
    /\ UNCHANGED <<products, monitoringActive, monitoringInterval,
                   intervals, timers, now, stats, fired>>

(* stopMonitoring *)

stopMonitoring ==
    IF AlreadyStopped(monitoringActive)
    THEN /\ Event
         /\ UNCHANGED <<products, heap, monitoringActive, monitoringInterval,
                        intervals, timers, now, logsList, stats,
                        productsList, fired>>
    ELSE /\ monitoringActive' = FALSE
         /\ intervals' = IF monitoringInterval # Undefined
                         THEN ClearInterval(intervals, monitoringInterval)
                         ELSE intervals
         /\ logsList' = AddLogEntry(logsList, now,
                                    <<"Bot monitoring stopped", "", "">>)
         /\ Event
         /\ UNCHANGED <<products, heap, monitoringInterval, timers, now,
                        stats, productsList, fired>>

(* testEmail and the callback of its setTimeout *)

testEmail ==
    /\ timers' = Append(timers, [kind |-> "email", ref |-> 0])
    /\ Event
    /\ UNCHANGED <<products, heap, monitoringActive, monitoringInterval,
                   intervals, now, logsList, stats, productsList, fired>>

testEmailTimeout ==
    /\ timers # << >>
    /\ Head(timers).kind = "email"
    /\ logsList' = AddLogEntry(logsList, now,
                               <<"Test email sent successfully", "", "">>)
    /\ timers' = Tail(timers)
    /\ Event
    /\ UNCHANGED <<products, heap, monitoringActive, monitoringInterval,
                   intervals, now, stats, productsList, fired>>

(* the setTimeout at the end of the script: two sample log entries *)

SampleLogsTimeout ==
    /\ timers # << >>
    /\ Head(timers).kind = "init"
    /\ logsList' = AddLogEntry(
                      AddLogEntry(logsList, now,
                                  <<"Dashboard loaded successfully", "", "">>),
                      now, <<"Ready to monitor products", "", "">>)
    /\ timers' = Tail(timers)
    /\ Event
    /\ UNCHANGED <<products, heap, monitoringActive, monitoringInterval,
                   intervals, now, stats, productsList, fired>>

----------------------------------------------------------------------------

Next ==
    \/ Advance
    \/ \E name \in FormNames : addProduct(name)
    \/ \E productId \in ButtonIds : testProduct(productId)
    \/ \E isInStock \in BOOLEAN : testProductTimeout(isInStock)
    \/ \E productId \in ButtonIds : viewProduct(productId)
    \/ \E productId \in ButtonIds, confirmed \in BOOLEAN :
          deleteProduct(productId, confirmed)
    \/ startMonitoring
    \/ \E handle \in intervals : MonitoringTick(handle)
    \/ stopMonitoring
    \/ testEmail
    \/ testEmailTimeout
    \/ SampleLogsTimeout

Spec == Init /\ [][Next]_vars

----------------------------------------------------------------------------
(* A page that has been open for a while: the sample log entries are in,
   and monitoring was started and stopped LogRounds times, so the log is
   about to reach its capacity.  From there the page behaves as before. *)

RECURSIVE StartStopLog(_)
StartStopLog(rounds) ==
    IF rounds = 0
    THEN AddLogEntry(
           AddLogEntry(<< >>, PageLoad,
                       <<"Dashboard loaded successfully", "", "">>),
           PageLoad, <<"Ready to monitor products", "", "">>)
    ELSE AddLogEntry(
           AddLogEntry(StartStopLog(rounds - 1), PageLoad,
                       <<"Bot monitoring started", "", "">>),
           PageLoad, <<"Bot monitoring stopped", "", "">>)

InitLog ==
    /\ heap = SampleProducts
    /\ products = <<1, 2>>
    /\ monitoringActive = FALSE
    /\ monitoringInterval = LogRounds
    /\ intervals = {}
    /\ timers = << >>
    /\ now = PageLoad
    /\ logsList = StartStopLog(LogRounds)
    /\ stats = UpdateStats(<<1, 2>>, SampleProducts)
    /\ productsList = LoadProducts(<<1, 2>>, SampleProducts)
    /\ fired = <<0, 0>>
    /\ events = 0
    /\ Unopened

NextLog ==
    \/ Advance
    \/ \E name \in FormNames : addProduct(name)
    \/ \E productId \in ButtonIds : testProduct(productId)
    \/ \E isInStock \in BOOLEAN : testProductTimeout(isInStock)
    \/ \E productId \in ButtonIds : viewProduct(productId)
    \/ \E productId \in ButtonIds, confirmed \in BOOLEAN :
          deleteProduct(productId, confirmed)
    \/ startMonitoring
    \/ \E handle \in intervals : MonitoringTick(handle)
    \/ stopMonitoring
    \/ testEmail
    \/ testEmailTimeout

SpecLog == InitLog /\ [][NextLog]_vars

\* `new RestockDashboard()`: loadData has sent its three requests
InitDashboard ==
    /\ heap = SampleProducts
    /\ products = <<1, 2>>
    /\ monitoringActive = FALSE
    /\ monitoringInterval = Undefined
    /\ intervals = {}
    /\ timers = <<[kind |-> "init", ref |-> 0]>>
    /\ now = PageLoad
    /\ logsList = << >>
    /\ stats = UpdateStats(<<1, 2>>, SampleProducts)
    /\ productsList = LoadProducts(<<1, 2>>, SampleProducts)
    /\ fired = <<0, 0>>
    /\ events = 0
    /\ \E lines \in {0, ServerLines} : api = Backend(lines)
    /\ fetches = LoadData(<< >>)
    /\ dashboard = Template

\* the 30 s timer of the constructor
AutoRefresh ==
    /\ Step
    /\ fetches' = LoadData(fetches)
    /\ UNCHANGED <<api, dashboard>>

\* the backend answers a GET, with the data it holds now or with an error
Answer(i, ok) ==
    LET f == fetches[i]
        body == IF ~ok THEN << >>
                ELSE IF f.url = "/api/status" THEN Status(api)
                ELSE IF f.url = "/api/products" THEN api.products
                ELSE api.logs
    IN  /\ ~f.answered
        /\ f.url \in {"/api/status", "/api/products", "/api/logs"}
        /\ Step
        /\ fetches' = [fetches EXCEPT
                         ![i] = [f EXCEPT !.answered = TRUE, !.ok = ok,
                                          !.body = body]]
        /\ UNCHANGED <<api, dashboard>>

\* the backend runs check_now for POST /api/products/<id>/test
AnswerTest(i, outcome) ==
    LET f == fetches[i]
        known == {k \in 1..Len(api.products) : api.products[k].id = f.id}
        body == IF known = {} THEN [detail |-> <<"Product not found">>]
                ELSE [in_stock |-> outcome = "InStock",
                      product_name |->
                         api.products[CHOOSE k \in known : TRUE].name]
    IN  /\ ~f.answered
        /\ f.url = "/api/products/test"
        /\ Step
        /\ api' = IF known = {} THEN api
                  ELSE CheckNow(api, f.id, outcome, FormatTime(now))
        /\ fetches' = [fetches EXCEPT
                         ![i] = [f EXCEPT !.answered = TRUE,
                                          !.ok = (known # {}),
                                          !.body = body]]
        /\ UNCHANGED dashboard

\* a loader lets its error out
LoaderRethrows(failed) == failed

\* try { ... } catch (error) { console.error(...) } around the body of each
\* loader: the promise a loader returns never rejects
LoaderRejects(failed) == FALSE

\* loadData awaits Promise.all of the three loaders; its catch shows a
\* toast when one of them rejects
LoadDataSettles(d, rejected) ==
    IF rejected
    THEN ShowNotification(d, <<"Error loading dashboard data">>, "error")
    ELSE d

\* the finally of handleAddProduct is not run
FinallySkipped(d) == d

\* the finally of handleAddProduct: the submit button is as it was
Finally(d) ==
    [d EXCEPT !.submit = [text |-> "Add Product", disabled |-> FALSE]]

\* the requests of the loadData that handler w awaits
AwaitedBy(fs, w) == {j \in 1..Len(fs) : fs[j].waiter = w}

\* a loader of fetch f has resumed and fs are the requests left: when it
\* was the last loader of the loadData that handleAddProduct awaits, the
\* handler goes on to its finally
LoadDataReturns(f, fs, d) ==
    IF f.waiter = "handleAddProduct" /\ AwaitedBy(fs, "handleAddProduct") = {}
    THEN Finally(d)
    ELSE d

\* loadStatus after its await: the four fields, or console.error
RestockDashboard_loadStatus(i, delivered) ==
    LET f == fetches[i]
    IN  /\ f.url = "/api/status"
        /\ delivered => f.answered
        /\ Step
        /\ fetches' = Settled(fetches, i)
        /\ dashboard' = LoadDataReturns(f, Settled(fetches, i), LoadDataSettles(
             IF delivered /\ f.ok
             THEN [dashboard EXCEPT !.status =
                     [totalProducts |-> f.body.total_products,
                      activeProducts |-> f.body.active_products,
                      notificationsSent |-> f.body.notifications_sent,
                      monitoringStatus |-> f.body.monitoring_status]]
             ELSE dashboard,
             LoaderRejects(~(delivered /\ f.ok))))
        /\ UNCHANGED api

\* the unsettled /api/products requests sent before the i-th fetch (the
\* fetches are kept in the order they were sent)
IssuedBefore(fs, i) ==
    Cardinality({j \in 1..(i - 1) : fs[j].url = "/api/products"})

\* loadProducts after its await: renderProducts, or the error paragraph
RestockDashboard_loadProducts(i, delivered) ==
    LET f == fetches[i]
    IN  /\ f.url = "/api/products"
        /\ delivered => f.answered
        /\ Step
        /\ fetches' = Settled(fetches, i)
        /\ dashboard' = LoadDataReturns(f, Settled(fetches, i), LoadDataSettles(
             [dashboard EXCEPT
                 !.productsList = IF delivered /\ f.ok
                                  THEN RenderProducts(f.body) ELSE << >>,
                 !.shownOk = delivered /\ f.ok,
                 !.latest = IF IssuedBefore(fetches, i) < @.older
                            THEN [@ EXCEPT !.older = @ - 1]
                            ELSE [older |-> IssuedBefore(fetches, i),
                                  ok |-> delivered /\ f.ok,
                                  list |-> IF delivered /\ f.ok
                                           THEN RenderProducts(f.body)
                                           ELSE << >>]],
             LoaderRejects(~(delivered /\ f.ok))))
        /\ UNCHANGED api

\* loadLogs after its await: renderLogs(data.logs), or console.error
RestockDashboard_loadLogs(i, delivered) ==
    LET f == fetches[i]
    IN  /\ f.url = "/api/logs"
        /\ delivered => f.answered
        /\ Step
        /\ fetches' = Settled(fetches, i)
        /\ dashboard' = LoadDataReturns(f, Settled(fetches, i), LoadDataSettles(
             IF delivered /\ f.ok
             THEN [dashboard EXCEPT !.logsList = RenderLogs(f.body)]
             ELSE dashboard,
             LoaderRejects(~(delivered /\ f.ok))))
        /\ UNCHANGED api

\* testProduct up to its await: the toast and the POST
RestockDashboard_testProduct(productId) ==
    /\ Step
    /\ dashboard' = ShowNotification(dashboard, <<"Testing product...">>,
                                     "info")
    /\ fetches' = Append(fetches, Request("/api/products/test", productId))
    /\ UNCHANGED api

\* testProduct after its await: the result toast and loadData, or an
\* error toast
RestockDashboard_testProductResumes(i, delivered) ==
    LET f == fetches[i]
    IN  /\ f.url = "/api/products/test"
        /\ delivered => f.answered
        /\ Step
        /\ IF delivered /\ f.ok
           THEN /\ dashboard' = ShowNotification(dashboard,
                     <<f.body.product_name,
                       IF f.body.in_stock THEN "IN STOCK"
                       ELSE "OUT OF STOCK">>, "info")
                /\ fetches' = LoadData(Settled(fetches, i))
           ELSE /\ dashboard' = ShowNotification(dashboard,
                     IF delivered THEN f.body.detail
                     ELSE <<"Error testing product">>, "error")
                /\ fetches' = Settled(fetches, i)
        /\ UNCHANGED api

NextDashboard ==
    \/ AutoRefresh
    \/ \E i \in 1..Len(fetches), ok \in BOOLEAN : Answer(i, ok)
    \/ \E i \in 1..Len(fetches), outcome \in Outcomes : AnswerTest(i, outcome)
    \/ \E i \in 1..Len(fetches), delivered \in BOOLEAN :
          RestockDashboard_loadStatus(i, delivered)
    \/ \E i \in 1..Len(fetches), delivered \in BOOLEAN :
          RestockDashboard_loadProducts(i, delivered)
    \/ \E i \in 1..Len(fetches), delivered \in BOOLEAN :
          RestockDashboard_loadLogs(i, delivered)
    \/ \E productId \in TestButtonIds : RestockDashboard_testProduct(productId)
    \/ \E i \in 1..Len(fetches), delivered \in BOOLEAN :
          RestockDashboard_testProductResumes(i, delivered)

SpecDashboard == InitDashboard /\ [][NextDashboard]_vars

----------------------------------------------------------------------------
(* The Add Product form of the API client.  A field value is a sequence of
   pieces of text: " " is white space, "@" and "." are themselves,
   "https://" is a scheme with its slashes, any other piece is a run of
   ordinary characters. *)

\* String.prototype.trim
RECURSIVE StringTrim(_)
StringTrim(text) ==
    IF text = << >> THEN text
    ELSE IF Head(text) = " " THEN StringTrim(Tail(text))
    ELSE IF text[Len(text)] = " "
         THEN StringTrim(SubSeq(text, 1, Len(text) - 1))
    ELSE text

\* `new URL(url)` does not throw: the text is a scheme followed by a host
\* and holds no white space
ParsesAsUrl(url) ==
    /\ Len(url) >= 2
    /\ url[1] = "https://"
    /\ \A k \in 2..Len(url) : url[k] \notin {" ", "https://"}

\* [^\s@]+ matches the pieces a..b
NoSpaceNoAt(text, a, b) ==
    a <= b /\ \A k \in a..b : text[k] \notin {" ", "@"}

\* /^[^\s@]+@[^\s@]+\.[^\s@]+$/.test(email)
EmailRegexTest(email) ==
    \E at \in 1..Len(email), dot \in 1..Len(email) :
       /\ email[at] = "@"
       /\ email[dot] = "."
       /\ NoSpaceNoAt(email, 1, at - 1)
       /\ NoSpaceNoAt(email, at + 1, dot - 1)
       /\ NoSpaceNoAt(email, dot + 1, Len(email))

\* a form that passes, and the forms that differ from it in one field
GoodForm ==
    [name |-> <<"Widget">>, url |-> <<"https://", "shop.example">>,
     selector |-> <<".stock">>, expected_text |-> <<"Sold out">>,
     email |-> <<"me", "@", "mail", ".", "example">>]

Forms ==
    {GoodForm}
    \cup {[GoodForm EXCEPT !.name = v] : v \in {<< >>, <<" ">>}}
    \cup {[GoodForm EXCEPT !.selector = v] : v \in {<<" ", " ">>}}
    \cup {[GoodForm EXCEPT !.expected_text = v] : v \in {<< >>}}
    \cup {[GoodForm EXCEPT !.url = v] :
            v \in {<<" ">>, <<"shop.example">>, <<"https://">>,
                   <<"https://", "shop", " ", "example">>,
                   <<" ", "https://", "shop.example", " ">>}}
    \cup {[GoodForm EXCEPT !.email = v] :
            v \in {<< >>, <<"me", "@", "mail">>, <<"@", "mail", ".", "example">>,
                   <<"me", " ", "@", "mail", ".", "example">>,
                   <<"me", "@", "mail", ".">>,
                   <<" ", "me", "@", "mail", ".", "example">>}}

\* productData: the five fields, trimmed
ProductData(form) ==
    [name |-> StringTrim(form.name), url |-> StringTrim(form.url),
     selector |-> StringTrim(form.selector),
     expected_text |-> StringTrim(form.expected_text),
     email |-> StringTrim(form.email)]

\* the toast of the validation that fails, "" when none does
Validate(productData) ==
    IF \/ productData.name = << >> \/ productData.url = << >>
       \/ productData.selector = << >> \/ productData.expected_text = << >>
       \/ productData.email = << >>
    THEN "Please fill in all fields"
    ELSE IF ~ParsesAsUrl(productData.url) THEN "Please enter a valid URL"
    ELSE IF ~EmailRegexTest(productData.email)
         THEN "Please enter a valid email address"
    ELSE ""

\* loadData, awaited by handler w
LoadDataFor(fs, w) ==
    fs \o [k \in 1..3 |-> [LoadData(<< >>)[k] EXCEPT !.waiter = w]]

\* handleAddProduct up to its await: the form was submitted (a disabled
\* submit button submits nothing)
RestockDashboard_handleAddProduct(form) ==
    LET productData == ProductData(form)
        message     == Validate(productData)
    IN  /\ ~dashboard.submit.disabled
        /\ Step
        /\ IF message # ""
           THEN /\ dashboard' = ShowNotification(dashboard, <<message>>,
                                                 "error")
                /\ fetches' = fetches
           ELSE /\ dashboard' =
                     [dashboard EXCEPT !.submit =
                         [text |-> "Adding...", disabled |-> TRUE]]
                /\ fetches' = Append(fetches,
                     [Request("POST /api/products", 0) EXCEPT
                         !.data = productData])
        /\ UNCHANGED api

\* the backend stores the product of POST /api/products, or rejects it
AnswerAdd(i, ok) ==
    LET f == fetches[i]
        created == [id |-> Len(api.products) + 1, name |-> f.data.name[1],
                    is_active |-> TRUE, last_checked |-> Null,
                    last_error |-> ""]
    IN  /\ ~f.answered
        /\ f.url = "POST /api/products"
        /\ Step
        /\ api' = IF ok
                  THEN [api EXCEPT !.products = Append(@, created)]
                  ELSE api
        /\ fetches' = [fetches EXCEPT
                         ![i] = [f EXCEPT !.answered = TRUE, !.ok = ok,
                                   !.body = IF ok
                                            THEN [message |-> <<"Product added">>]
                                            ELSE [detail |-> <<"Rejected">>]]]
        /\ UNCHANGED dashboard

\* handleAddProduct after its await: the toast, then loadData on success;
\* the finally runs when the handler is through
RestockDashboard_handleAddProductResumes(i, delivered) ==
    LET f == fetches[i]
    IN  /\ f.url = "POST /api/products"
        /\ delivered => f.answered
        /\ Step
        /\ IF delivered /\ f.ok
           THEN /\ dashboard' = ShowNotification(dashboard, f.body.message,
                                                 "success")
                /\ fetches' = LoadDataFor(Settled(fetches, i),
                                          "handleAddProduct")
           ELSE /\ dashboard' = Finally(ShowNotification(dashboard,
                     IF delivered THEN f.body.detail
                     ELSE <<"Network error. Please try again.">>, "error"))
                /\ fetches' = Settled(fetches, i)
        /\ UNCHANGED api

\* the form, and the loaders that its reload and the first loadData use
NextForm ==
    \/ \E form \in Forms : RestockDashboard_handleAddProduct(form)
    \/ \E i \in 1..Len(fetches), ok \in BOOLEAN : AnswerAdd(i, ok)
    \/ \E i \in 1..Len(fetches), delivered \in BOOLEAN :
          RestockDashboard_handleAddProductResumes(i, delivered)
    \/ \E i \in 1..Len(fetches), ok \in BOOLEAN : Answer(i, ok)
    \/ \E i \in 1..Len(fetches), delivered \in BOOLEAN :
          RestockDashboard_loadStatus(i, delivered)
    \/ \E i \in 1..Len(fetches), delivered \in BOOLEAN :
          RestockDashboard_loadProducts(i, delivered)
    \/ \E i \in 1..Len(fetches), delivered \in BOOLEAN :
          RestockDashboard_loadLogs(i, delivered)

SpecForm == InitDashboard /\ [][NextForm]_vars

----------------------------------------------------------------------------
(* Refreshes of the API client while the backend's scheduler works *)

\* a cycle of the backend's scheduler checks an Active product
MonitorCheck(productId, outcome) ==
    /\ \E k \in 1..Len(api.products) :
          api.products[k].id = productId /\ api.products[k].is_active
    /\ Step
    /\ api' = CheckNow(api, productId, outcome, FormatTime(now))
    /\ UNCHANGED <<fetches, dashboard>>

NextRefresh ==
    \/ AutoRefresh
    \/ \E productId \in {1, 2}, outcome \in Outcomes :
          MonitorCheck(productId, outcome)
    \/ \E i \in 1..Len(fetches), ok \in BOOLEAN : Answer(i, ok)
    \/ \E i \in 1..Len(fetches), delivered \in BOOLEAN :
          RestockDashboard_loadStatus(i, delivered)
    \/ \E i \in 1..Len(fetches), delivered \in BOOLEAN :
          RestockDashboard_loadProducts(i, delivered)
    \/ \E i \in 1..Len(fetches), delivered \in BOOLEAN :
          RestockDashboard_loadLogs(i, delivered)

SpecRefresh == InitDashboard /\ [][NextRefresh]_vars

----------------------------------------------------------------------------
(* Vocabulary of the properties *)

Range(seq) == {seq[i] : i \in 1..Len(seq)}

\* the object the pending check at the head of the timer queue will update
HeadCheck == Head(timers).ref

\* pending checks of object r
InFlight(r) == {i \in 1..Len(timers) :
                  timers[i].kind = "test" /\ timers[i].ref = r}

\* a monitoring tick runs
Tick == \E handle \in intervals : MonitoringTick(handle)

\* log entries of a given verb
Entries(verb) == {i \in 1..Len(logsList) : logsList[i].message[1] = verb}

\* object r equals its earlier self except for lastChecked
OnlyLastCheckedChanged(r) ==
    heap' = [heap EXCEPT ![r].lastChecked = heap'[r].lastChecked]

----------------------------------------------------------------------------
\* C1: for a product that is Active, a check that comes out InStock makes
\* the product Suspended and fires exactly one notification; an InStock
\* result for a product that is no longer Active fires none.
C1_InStockSuspendsAndNotifiesOnce ==
    [][testProductTimeout(TRUE) =>
         IF heap[HeadCheck].isActive
         THEN /\ ~heap'[HeadCheck].isActive
              /\ fired'[HeadCheck] = fired[HeadCheck] + 1
         ELSE fired'[HeadCheck] = fired[HeadCheck]]_vars

\* C2: for a product that is Active, a check that comes out OutOfStock (an
\* on-demand test, or a monitoring tick) leaves the product Active, fires
\* no notification and changes nothing of the product but lastChecked.
C2_OutOfStockKeepsActive ==
    [][/\ (testProductTimeout(FALSE) /\ heap[HeadCheck].isActive) =>
            /\ heap'[HeadCheck].isActive
            /\ OnlyLastCheckedChanged(HeadCheck)
            /\ heap'[HeadCheck].lastChecked = FormatTime(now)
            /\ fired' = fired
       /\ Tick =>
            /\ \A r \in DOMAIN heap : heap[r].isActive => heap'[r].isActive
            /\ \E r \in DOMAIN heap : OnlyLastCheckedChanged(r)
            /\ fired' = fired]_vars

\* C2 witness: product 1 is still Active and unnotified after an on-demand
\* test of it came out OutOfStock.
C2_Witness ==
    /\ logsList # << >>
    /\ logsList[1].message = <<"Tested", "MacBook Pro M1", "OUT OF STOCK">>
    /\ heap[1].isActive
    /\ heap[1].lastChecked = FormatTime(now)
    /\ fired[1] = 0

\* C3: at any time at most one check is in flight per product.
C3_AtMostOneInFlight ==
    \A r \in DOMAIN heap : Cardinality(InFlight(r)) <= 1

\* C4: a Suspended product is never checked: no step starts a check of it
\* or changes its lastChecked.
C4_SuspendedNeverChecked ==
    [][\A r \in DOMAIN heap :
         ~heap[r].isActive =>
            /\ heap'[r].lastChecked = heap[r].lastChecked
            /\ Cardinality(InFlight(r)') <= Cardinality(InFlight(r))]_vars

\* C4 as amended: a monitoring tick never checks a Suspended product: it
\* leaves every Suspended product, lastChecked included, as it is; an
\* on-demand test runs on a product whatever its state.
C4_TickSkipsSuspended ==
    [][Tick => \A r \in DOMAIN heap : ~heap[r].isActive => heap'[r] = heap[r]]_vars

\* C4 witness: a tick has checked a product while the Suspended sample
\* product was in the list, and that product is as it was.
C4_Witness ==
    /\ Entries("Checked") # {}
    /\ 2 \in Range(products)
    /\ ~heap[2].isActive
    /\ heap[2] = SampleProducts[2]

C6_SuspendedIsTerminal ==
    [][\A r \in DOMAIN heap : ~heap[r].isActive => ~heap'[r].isActive]_vars

\* C6 witness: the Suspended sample product is still Suspended after an
\* on-demand test of it has completed and monitoring has been started.
C6_Witness ==
    /\ ~heap[2].isActive
    /\ heap[2].lastChecked = FormatTime(now)
    /\ monitoringInterval # Undefined

\* C7: at most one monitoring timer is live, and one is live exactly while
\* monitoring is Running; startMonitoring while Running and stopMonitoring
\* while Stopped change nothing.
C7_GuardedStartStop ==
    /\ [](/\ Cardinality(intervals) <= 1
          /\ monitoringActive <=> intervals # {}
          /\ intervals \subseteq {monitoringInterval})
    /\ [][\/ monitoringActive /\ startMonitoring
          \/ ~monitoringActive /\ stopMonitoring
          => UNCHANGED <<products, heap, monitoringActive, monitoringInterval,
                         intervals, timers, now, logsList, stats,
                         productsList, fired>>]_vars

\* C7 witness: monitoring was started, stopped and started again, and
\* exactly the second timer is live.
C7_Witness ==
    /\ monitoringActive
    /\ monitoringInterval = 2
    /\ intervals = {2}
    /\ Cardinality(Entries("Bot monitoring started")) = 2
    /\ Cardinality(Entries("Bot monitoring stopped")) = 1

\* C8: a check that was in flight when the user removed its product fires
\* no notification when it completes.
C8_NoNotificationAfterRemoval ==
    [][\A isInStock \in BOOLEAN :
         (testProductTimeout(isInStock) /\ HeadCheck \notin Range(products))
            => fired' = fired]_vars

C10_UniqueIds ==
    \A i, j \in 1..Len(products) :
       i # j => heap[products[i]].id # heap[products[j]].id

\* a check of object r completes: an on-demand test of r, or a tick
CheckCompletes(r) ==
    \/ \E isInStock \in BOOLEAN : testProductTimeout(isInStock) /\ HeadCheck = r
    \/ Tick

\* C11: a product that addProduct creates is Active with lastChecked null,
\* and a product that was never checked stays Active with lastChecked null
\* in every step that is not the completion of a check.
C11_NewProductActiveUnchecked ==
    [][/\ \A r \in DOMAIN heap' \ DOMAIN heap :
            heap'[r].isActive /\ heap'[r].lastChecked = Null
       /\ \A r \in DOMAIN heap :
            (heap[r].lastChecked = Null /\ ~CheckCompletes(r)) =>
               heap'[r] = heap[r]
       /\ \A r \in DOMAIN heap :
            heap[r].lastChecked = Null => heap'[r].isActive]_vars

\* C11 witness: an added product is in the list, still Active and never
\* checked, after a check of another product has completed.
C11_Witness ==
    /\ \E r \in Range(products) :
          /\ r > Len(SampleProducts)
          /\ heap[r].isActive
          /\ heap[r].lastChecked = Null
    /\ Entries("Checked") \cup Entries("Tested") # {}

\* C12: the lastChecked of a product never decreases, null counting as
\* earlier than every time, whatever the order in which ticks run and
\* tests complete.
C12_LastCheckedMonotonic ==
    [][\A r \in DOMAIN heap :
         /\ heap[r].lastChecked # Null => heap'[r].lastChecked # Null
         /\ heap'[r].lastChecked >= heap[r].lastChecked]_vars

\* C12 witness: product 1 was checked twice, a second apart, and carries
\* the later time.
C12_Witness ==
    /\ Len(logsList) >= 2
    /\ logsList[1].message[2] = "MacBook Pro M1"
    /\ \E i \in 2..Len(logsList) :
          /\ logsList[i].message[2] = "MacBook Pro M1"
          /\ logsList[i].time < logsList[1].time
          /\ logsList[i].time > SampleProducts[1].lastChecked
    /\ heap[1].lastChecked = logsList[1].time

\* the log after one more entry: the entry first, then the earlier entries
\* (all of them while the log is not full)
OneMoreEntry(verb, name) ==
    /\ logsList' # << >>
    /\ logsList'[1].message[1] = verb
    /\ logsList'[1].message[2] = name
    /\ logsList'[1].time = FormatTime(now)
    /\ Len(logsList') = IF Len(logsList) < LogCapacity
                        THEN Len(logsList) + 1 ELSE LogCapacity
    /\ Tail(logsList') = SubSeq(logsList, 1, Len(logsList') - 1)

\* C13: every check, by an on-demand test with either outcome or by a
\* monitoring tick that finds an Active product, adds exactly one entry to
\* the activity log, and the entry names the product and the outcome.
C13_CheckLogsOneEntry ==
    [][/\ \A isInStock \in BOOLEAN :
            testProductTimeout(isInStock) =>
               /\ OneMoreEntry("Tested", heap[HeadCheck].name)
               /\ logsList'[1].message[3] =
                     IF isInStock THEN "IN STOCK" ELSE "OUT OF STOCK"
       /\ (Tick /\ ActiveProducts(products, heap) # << >>) =>
            \E r \in Range(products) :
               /\ heap'[r].lastChecked = FormatTime(now)
               /\ OneMoreEntry("Checked", heap[r].name)]_vars

\* C13 witness: the log holds the entry of an on-demand test that came out
\* IN STOCK and, above it, the entry of a monitoring tick.
C13_Witness ==
    /\ Len(logsList) >= 2
    /\ logsList[1].message[1] = "Checked"
    /\ \E i \in Entries("Tested") : logsList[i].message[3] = "IN STOCK"

\* a handler that calls addLogEntry runs
Records ==
    \/ ~monitoringActive /\ startMonitoring
    \/ monitoringActive /\ stopMonitoring
    \/ \E isInStock \in BOOLEAN : testProductTimeout(isInStock)
    \/ Tick /\ ActiveProducts(products, heap) # << >>
    \/ testEmailTimeout
    \/ SampleLogsTimeout

\* C14: the log never holds more than its capacity, and a step that
\* records entries keeps, after the new entries, the most recent of the
\* earlier entries in their order: what is evicted is the oldest.
C14_LogBoundedFifo ==
    /\ [](Len(logsList) <= LogCapacity)
    /\ [][(Records \/ logsList' # logsList) =>
            \E k \in 1..2 :
               /\ Len(logsList') =
                     IF Len(logsList) + k <= LogCapacity
                     THEN Len(logsList) + k ELSE LogCapacity
               /\ SubSeq(logsList', k + 1, Len(logsList')) =
                     SubSeq(logsList, 1, Len(logsList') - k)
               /\ \A i \in 1..k : logsList'[i].time = FormatTime(now)]_vars

\* C14 witness: the log is full and the two oldest entries, the sample
\* entries, have been evicted.
C14_Witness ==
    /\ Len(logsList) = LogCapacity
    /\ Entries("Dashboard loaded successfully") = {}
    /\ Entries("Ready to monitor products") = {}
    /\ events > 0

\* the log lines of an answer that a loadLogs step renders
Rendering(i) == RestockDashboard_loadLogs(i, TRUE) /\ fetches[i].ok

\* C15: the displayed log is the most recent min(20, length) recorded
\* entries, most recent first: when renderLogs shows the lines of an
\* answer, the j-th child of #logsList is the j-th line counted from the
\* end of the backend's log, for j up to 20 and up to the length of the
\* log (an empty log shows the one placeholder, which is no log line).
\* That addLogEntry keeps its list newest first is C14.
C15_RecentMostRecentFirst ==
    [][\A i \in 1..Len(fetches) : Rendering(i) =>
          LET logs  == fetches[i].body
              shown == dashboard'.logsList
              m     == IF Len(logs) < LogsShown THEN Len(logs) ELSE LogsShown
          IN  IF Len(logs) = 0
              THEN Len(shown) = 1 /\ shown[1].n = Null
              ELSE /\ Len(shown) = m
                   /\ \A j \in 1..m :
                        /\ shown[j].n = logs[Len(logs) - j + 1].n
                        /\ shown[j].words = logs[Len(logs) - j + 1].words]_vars

\* a log of more than 20 lines was rendered: a line recorded after the
\* page loaded is on top and the oldest line is out of view
C15_Witness ==
    /\ Len(dashboard.logsList) = LogsShown
    /\ dashboard.logsList[1].n = ServerLines + 1
    /\ dashboard.logsList[LogsShown].n = ServerLines + 2 - LogsShown

\* C16: a product leaves the `products` array only in a confirmed
\* deleteProduct step (no tick, test, start or stop removes one), and a
\* product that enters the array is a new object: one that was deleted is
\* never put back, whatever check on it was still pending.
C16_RemovedOnlyByDeletion ==
    [][/\ (\E r \in Range(products) : r \notin Range(products')) =>
             \E productId \in ButtonIds : deleteProduct(productId, TRUE)
       /\ \A r \in Range(products') \ Range(products) :
             r \notin DOMAIN heap]_vars

\* the first sample product was deleted while a test of it was pending,
\* and the test has completed since
C16_Witness ==
    /\ 1 \notin Range(products)
    /\ heap[1].lastChecked # SampleProducts[1].lastChecked
    /\ Entries("Tested") # {}

\* C17: stopping monitoring never corrupts a product.  A stopMonitoring
\* step touches no product object and no pending check; a step that writes
\* a product object or counts a notification for it is the completion of
\* one check with all of its effects (lastChecked, the log entry that names
\* the product, both with the time of the step); and the rendered list
\* always shows the objects as they are.
C17_StopLeavesChecksWhole ==
    /\ [](productsList = LoadProducts(products, heap))
    /\ [][/\ stopMonitoring =>
                /\ heap' = heap /\ fired' = fired
                /\ timers' = timers /\ products' = products
          /\ \A r \in DOMAIN heap :
                (heap'[r] # heap[r] \/ fired'[r] # fired[r]) =>
                   /\ CheckCompletes(r)
                   /\ heap'[r].lastChecked = FormatTime(now)
                   /\ heap'[r].isActive = heap[r].isActive
                   /\ \/ OneMoreEntry("Tested", heap[r].name)
                      \/ OneMoreEntry("Checked", heap[r].name)]_vars

\* monitoring was stopped while a test of the first sample product was
\* pending, and nothing has happened since
C17_Witness ==
    /\ ~monitoringActive
    /\ Entries("Bot monitoring stopped") # {}
    /\ logsList[1].message[1] = "Bot monitoring stopped"
    /\ InFlight(1) # {}
    /\ heap[1] = SampleProducts[1]

\* C18: stock evaluation is deterministic: the page of a product and its
\* expectedText never change in the simulation, so all the on-demand tests
\* of the first sample product (the one product of that name) report the
\* same stock result.
C18_SameInputsSameResult ==
    \A i, j \in Entries("Tested") :
       /\ logsList[i].message[2] = SampleProducts[1].name
       /\ logsList[j].message[2] = SampleProducts[1].name
       => logsList[i].message[3] = logsList[j].message[3]

\* the check results that are failures
Failures == {"FetchFailed", "ExtractFailed"}

\* C19: a check whose result is FetchFailed or ExtractFailed never changes
\* the lifecycle state of a product and fires no notification; of the
\* product it changes last_checked_at and last_error only.  The page that
\* asked for the check changes nothing at the backend when the answer
\* comes: it shows a toast and sends GET requests only.
C19_FailedCheckKeepsLifecycle ==
    [][/\ \A i \in 1..Len(fetches), outcome \in Failures :
            AnswerTest(i, outcome) =>
               /\ api'.notifications_sent = api.notifications_sent
               /\ Len(api'.products) = Len(api.products)
               /\ \A k \in 1..Len(api.products) :
                     /\ api'.products[k].is_active = api.products[k].is_active
                     /\ [api'.products[k] EXCEPT !.last_checked = Null,
                                                 !.last_error = ""] =
                        [api.products[k] EXCEPT !.last_checked = Null,
                                                !.last_error = ""]
       /\ \A i \in 1..Len(fetches), delivered \in BOOLEAN :
            RestockDashboard_testProductResumes(i, delivered) =>
               /\ api' = api
               /\ \A j \in 1..Len(fetches') :
                     fetches'[j].url = "/api/products/test" =>
                        \E h \in 1..Len(fetches) : fetches[h] = fetches'[j]]_vars

\* a check of the Active product has failed: the product is still Active,
\* it carries the failure and the time of the check, nothing was notified
C19_Witness ==
    /\ api.products[1].is_active
    /\ api.products[1].last_error \in Failures
    /\ api.products[1].last_checked = FormatTime(now)
    /\ api.notifications_sent = 0
    /\ Len(api.logs) > 0
    /\ api.logs[Len(api.logs)].text[1] \in Failures

\* the product objects in the array whose isActive is true
ActiveSet(ps, h) == {r \in Range(ps) : h[r].isActive}

AddsOrDeletes ==
    \/ \E name \in FormNames : addProduct(name)
    \/ \E productId \in ButtonIds : deleteProduct(productId, TRUE)

\* the positions of the array whose product has isActive = active
Positions(ps, h, active) == {i \in 1..Len(ps) : h[ps[i]].isActive = active}

\* C21: after every addProduct and deleteProduct the displayed counters
\* match the product list (totalProducts the number of products,
\* activeProducts the number with isActive true, notificationsSent the
\* number with isActive false), and totalProducts = activeProducts +
\* notificationsSent holds in every state.
C21_StatsMatchProducts ==
    /\ [](stats.totalProducts = stats.activeProducts + stats.notificationsSent)
    /\ [][AddsOrDeletes =>
            /\ stats'.totalProducts = Len(products')
            /\ stats'.activeProducts =
                  Cardinality(Positions(products', heap', TRUE))
            /\ stats'.notificationsSent =
                  Cardinality(Positions(products', heap', FALSE))]_vars

\* a product was added and the Active sample product deleted: the counters
\* show two products, one of them Active
C21_Witness ==
    /\ Len(heap) > Len(SampleProducts)
    /\ 1 \notin Range(products)
    /\ Len(products) = 2
    /\ stats = [totalProducts |-> 2, activeProducts |-> 1,
                notificationsSent |-> 1]

\* a step puts a 'Checked ...' entry on top of the log
ChecksBySchedule ==
    /\ logsList' # logsList
    /\ logsList'[1].message[1] = "Checked"

\* C22: once stopMonitoring has completed, no monitoring tick occurs until
\* startMonitoring is called again: while monitoring is stopped no
\* interval timer is live, no step adds a 'Checked ...' log entry, and a
\* lastChecked is written by the completion of an on-demand test only.
C22_NoTickWhileStopped ==
    /\ [](~monitoringActive => intervals = {})
    /\ [][(~monitoringActive /\ ~monitoringActive') =>
            /\ ~ChecksBySchedule
            /\ \A r \in DOMAIN heap :
                  heap'[r].lastChecked # heap[r].lastChecked =>
                     \E isInStock \in BOOLEAN : testProductTimeout(isInStock)]_vars

\* monitoring ran, a tick checked a product, monitoring was stopped and
\* time has passed since
C22_Witness ==
    /\ ~monitoringActive
    /\ Entries("Checked") # {}
    /\ logsList[1].message[1] = "Bot monitoring stopped"
    /\ FormatTime(now) > logsList[1].time

\* the i-th fetch is the request of a loader and the loader resumes
LoaderResumes(i, delivered) ==
    \/ RestockDashboard_loadStatus(i, delivered)
    \/ RestockDashboard_loadProducts(i, delivered)
    \/ RestockDashboard_loadLogs(i, delivered)

\* C23: the three loaders of loadData are independent.  When a loader
\* resumes, with its data or with a failure (network error or non-OK
\* answer), it writes its own part of the page only, the requests of the
\* other loaders stay as they are, and no toast appears (loadData does not
\* reject); a loader that got its data renders it whatever happened to the
\* others.
C23_LoadersIndependent ==
    [][\A i \in 1..Len(fetches), delivered \in BOOLEAN :
          LET f == fetches[i]
          IN  /\ LoaderResumes(i, delivered) =>
                    /\ dashboard'.toast = dashboard.toast
                    /\ fetches' = Settled(fetches, i)
                    /\ api' = api
              /\ RestockDashboard_loadStatus(i, delivered) =>
                    /\ dashboard'.productsList = dashboard.productsList
                    /\ dashboard'.logsList = dashboard.logsList
                    /\ (delivered /\ f.ok) =>
                          dashboard'.status.totalProducts =
                             f.body.total_products
                    /\ ~(delivered /\ f.ok) =>
                          dashboard'.status = dashboard.status
              /\ RestockDashboard_loadProducts(i, delivered) =>
                    /\ dashboard'.status = dashboard.status
                    /\ dashboard'.logsList = dashboard.logsList
                    /\ (delivered /\ f.ok) =>
                          dashboard'.productsList = RenderProducts(f.body)
              /\ RestockDashboard_loadLogs(i, delivered) =>
                    /\ dashboard'.status = dashboard.status
                    /\ dashboard'.productsList = dashboard.productsList
                    /\ (delivered /\ f.ok) =>
                          dashboard'.logsList = RenderLogs(f.body)
                    /\ ~(delivered /\ f.ok) =>
                          dashboard'.logsList = dashboard.logsList]_vars

\* the first loadData is over: loadLogs failed (the log of the template is
\* still shown), loadStatus and loadProducts rendered what they got, and
\* no toast was shown
C23_Witness ==
    /\ fetches = << >>
    /\ dashboard.logsList = Template.logsList
    /\ dashboard.status.totalProducts = Len(api.products)
    /\ Len(dashboard.productsList) = Len(api.products)
    /\ dashboard.toast = Template.toast

\* the POST /api/products requests that are not settled
Posts(fs) == {j \in 1..Len(fs) : fs[j].url = "POST /api/products"}

\* handleAddProduct has sent its POST and is not through
AddPending ==
    \/ Posts(fetches) # {}
    \/ AwaitedBy(fetches, "handleAddProduct") # {}

\* the forms whose five fields are filled after trimming, with a URL and
\* an e-mail address that are well formed
ValidForms ==
    {GoodForm,
     [GoodForm EXCEPT !.url = <<" ", "https://", "shop.example", " ">>],
     [GoodForm EXCEPT !.email = <<" ", "me", "@", "mail", ".", "example">>]}

\* C24: handleAddProduct sends no POST /api/products when a field is empty
\* after trimming or the URL or the e-mail address is malformed; when it
\* sends one, the submit button is disabled while the request is pending,
\* and it is enabled again when the handler is through: at once when the
\* request is rejected or fails, after the reload when it succeeds.  The
\* button is never left disabled with nothing pending.
C24_ValidatedAndReenabled ==
    /\ [](dashboard.submit.disabled <=> AddPending)
    /\ [][/\ \A form \in Forms :
                RestockDashboard_handleAddProduct(form) =>
                   IF form \in ValidForms
                   THEN /\ Posts(fetches') = Posts(fetches) \cup {Len(fetches')}
                        /\ dashboard'.submit.disabled
                   ELSE /\ fetches' = fetches
                        /\ ~dashboard'.submit.disabled
          /\ \A i \in 1..Len(fetches), delivered \in BOOLEAN :
                RestockDashboard_handleAddProductResumes(i, delivered) =>
                   (dashboard'.submit.disabled <=>
                       (delivered /\ fetches[i].ok))]_vars

\* a product was added: the backend stored it, the reload is over and the
\* submit button is enabled again
C24_Witness ==
    /\ Len(api.products) = 3
    /\ dashboard.toast.message = <<"Product added">>
    /\ ~AddPending
    /\ ~dashboard.submit.disabled

\* no /api/products request is unsettled
ProductsSettled ==
    \A j \in 1..Len(fetches) : fetches[j].url # "/api/products"

\* C25: once all the /api/products requests of overlapping refreshes have
\* completed, the rendered product list is the answer to the most recently
\* issued of them (here: when that one and the one shown both succeeded).
C25_NewestResponseShown ==
    (ProductsSettled /\ dashboard.shownOk /\ dashboard.latest.ok) =>
        dashboard.productsList = dashboard.latest.list

====
